---- MODULE Spec2Model ----
(***************************************************************************)
(* The window monitor of clitoolkit (src/clitoolkit/media.py).             *)
(*                                                                         *)
(* window_monitor polls list_windows every 0.2 s, keeps for every          *)
(* (application, slot index) the last (timestamp, title) in `last`, and on *)
(* a change of title prints and (unless dry run) saves a WindowLog row for *)
(* the title that was replaced.  The model follows the loop statement by   *)
(* statement; `pc` is the position of the single thread inside it.         *)
(***************************************************************************)
EXTENDS Integers, Sequences, FiniteSets, TLC

VARIABLES
    pc,                 \* position in window_monitor
    exception,          \* the exception that ended the loop, "" while it runs
    clock,              \* what datetime.now() returns
    monitor_start_time, \* media.py:171
    save_logs,          \* the parameter of window_monitor
    VIDEO_ROOT_PATH,    \* media.py:26, fixed at import
    catalog,            \* rows of the table `video`
    table_window_log,   \* committed rows of the table `window_log`
    session_new,        \* objects added to the session and not yet committed
    lines,              \* list_windows: the wmctrl lines read by this poll
    windows,            \* the snapshot list_windows returned to this poll
    todo,               \* (app, index, new_title) still to visit in this poll
    last,               \* media.py:170, app -> index -> (timestamp, title)
    local,              \* start_time, end_time, app, old_title of the slot being closed
    window_log,         \* the WindowLog object built at media.py:208
    output,             \* what was printed, in order
    seen,               \* history: per slot, how often a snapshot reported it
    writes,             \* history: per slot, how often media.py:193 stored into it
    closed,             \* history: per slot, the (start_time, end_time) it closed, in order
    \* a second run of window_monitor, with save_logs=False, given the same
    \* listings at the same times (it only moves under SpecDryRun)
    dry_pc,
    dry_exception,
    dry_todo,
    dry_last,
    dry_local,
    dry_output

dry == << dry_pc, dry_exception, dry_todo, dry_last, dry_local, dry_output >>

vars == << pc, exception, clock, monitor_start_time, save_logs, VIDEO_ROOT_PATH,
           catalog, table_window_log, session_new, lines, windows, todo, last,
           local, window_log, output, seen, writes, closed, dry >>

----------------------------------------------------------------------------
(* Bounds of the model *)

\* the clock stops the model after this many ticks (each poll takes one)
MaxTime == 3

----------------------------------------------------------------------------
(* Program constants and the values the environment can supply *)

APPS == << "vlc.Vlc", "feh.feh", "google-chrome", "Chromium-browser.Chromium-browser" >>

\* video_id = None
None == 0

\* the function with the empty domain (an empty dict)
EmptyDict == [x \in {} |-> x]

\* an empty tuple, the default of defaultdict(tuple)
EmptyTuple == << >>

Range(s) == { s[i] : i \in DOMAIN s }

\* str.startswith('vlc'), over the application names of the model
startswith_vlc(app) == app \in { "vlc.Vlc" }

\* one matching wmctrl line: its WM_CLASS (words[2]) and its title (words[4:])
WmLine(app, title) == [app |-> app, title |-> title, lsof |-> << >>]

\* a line of a vlc window, with what `lsof | grep '^n<root>'` prints when
\* list_vlc_open_files runs for that line: lines n<root><relative path>
VlcLine(files) ==
    [app |-> "vlc.Vlc", title |-> "VLC media player",
     lsof |-> [i \in DOMAIN files |-> << "n", "/videos/", files[i] >>]]

\* the listings `wmctrl -l -x | grep -e ...` can give a poll.  feh.feh and
\* vlc.Vlc are in APPS; google-chrome.Google-chrome is not, the pattern
\* google-chrome only matches inside it
WmOutputs ==
    { << >>,
      << WmLine("feh.feh", "Doc") >>,
      << WmLine("feh.feh", "Pic") >>,
      << WmLine("feh.feh", "Doc"), WmLine("feh.feh", "Pic") >>,
      << WmLine("google-chrome.Google-chrome", "Doc") >>,
      << VlcLine(<< >>) >>,
      << VlcLine(<< "movies/x.mkv" >>) >>,
      << VlcLine(<< "movies/x.mkv", "movies/y.mkv" >>) >>,
      << VlcLine(<< "movies/x.mkv" >>), VlcLine(<< "movies/x.mkv" >>) >> }

\* the rows the table `video` can hold; path is unique (media.py:65)
Videos == { [video_id |-> 1, path |-> "movies/x.mkv", size |-> 20000000] }

Catalogs == { {}, Videos }

----------------------------------------------------------------------------
(* list_windows and list_vlc_open_files, media.py:112-160 *)

\* check_video_root_path raises ValueError when the root path is empty
check_video_root_path_raises == VIDEO_ROOT_PATH = ""

\* the files vlc has open below the root: grep keeps the lines that start
\* with n<root>; file[1:] drops the n, replace() drops the root
list_vlc_open_files(full_path, lsof) ==
    LET kept == SelectSeq(lsof, LAMBDA file : file[1] = "n" /\ file[2] = VIDEO_ROOT_PATH)
    IN  [ i \in DOMAIN kept |->
            IF full_path THEN << kept[i][2], kept[i][3] >> ELSE kept[i][3] ]

\* list_windows raises when a vlc line is met and the root path is not set
list_windows_raises(ls) ==
    \E i \in DOMAIN ls : startswith_vlc(ls[i].app) /\ check_video_root_path_raises

\* the loop of media.py:129-142 over the lines still to read
RECURSIVE scan_lines(_, _)
scan_lines(ls, w) ==
    IF ls = << >> THEN w
    ELSE LET line == Head(ls)
             app == line.app
             w1 == IF app \in DOMAIN w THEN w ELSE w @@ (app :> << >>)
             open_files == list_vlc_open_files(FALSE, line.lsof)
             title == IF startswith_vlc(app) THEN "" ELSE line.title
         IN  IF startswith_vlc(app) /\ open_files # << >>
             THEN scan_lines(Tail(ls), [w1 EXCEPT ![app] = @ \o open_files])
             ELSE scan_lines(Tail(ls), [w1 EXCEPT ![app] = Append(@, title)])

\* pad_titles without the padding
pad_titles_none(value) == value

\* media.py:143, the padding of an empty list to ['']
pad_titles(value) == IF value # << >> THEN value ELSE << "" >>

list_windows(ls) ==
    LET w == scan_lines(ls, [app \in Range(APPS) |-> << >>])
    IN  [key \in DOMAIN w |-> pad_titles(w[key])]

\* the order of the keys of the dict: APPS, then the other applications in
\* the order their first line was read
RECURSIVE key_order(_, _)
key_order(ls, keys) ==
    IF ls = << >> THEN keys
    ELSE key_order(Tail(ls),
                   IF Head(ls).app \in Range(keys) THEN keys ELSE Append(keys, Head(ls).app))

\* the (app, index, new_title) the two for loops of media.py:177-184 visit
RECURSIVE items_of(_, _)
items_of(w, keys) ==
    IF keys = << >> THEN << >>
    ELSE [ i \in 1..Len(w[Head(keys)]) |-> << Head(keys), i - 1, w[Head(keys)][i] >> ]
         \o items_of(w, Tail(keys))

----------------------------------------------------------------------------
(* window_monitor, media.py:163-215: the expressions of the loop body *)

\* last[app][index] of a dict of defaultdict(tuple): () when never stored
info(l, app, index) ==
    IF app \in DOMAIN l /\ index \in DOMAIN l[app] THEN l[app][index] ELSE EmptyTuple

\* store that makes a new dict for the application at every write
store_fresh(l, app, index, value) ==
    [a \in DOMAIN l \cup {app} |-> IF a = app THEN [i \in {index} |-> value] ELSE l[a]]

\* store that forgets the slots behind the one it writes
store_prune(l, app, index, value) ==
    LET slots == IF app \in DOMAIN l THEN l[app] ELSE EmptyDict
        kept == { i \in DOMAIN slots \cup {index} : i <= index }
    IN  [a \in DOMAIN l \cup {app} |->
            IF a = app THEN [i \in kept |-> IF i = index THEN value ELSE slots[i]]
            ELSE l[a]]

\* store that keeps the timestamp of an entry it overwrites
store_keep_time(l, app, index, value) ==
    LET slots == IF app \in DOMAIN l THEN l[app] ELSE EmptyDict
        kept == IF index \in DOMAIN slots THEN << slots[index][1], value[2] >> ELSE value
    IN  [a \in DOMAIN l \cup {app} |->
            IF a = app
            THEN [i \in DOMAIN slots \cup {index} |-> IF i = index THEN kept ELSE slots[i]]
            ELSE l[a]]

\* last[app][index] = value, creating last[app] when missing (media.py:181-182)
store(l, app, index, value) ==
    LET slots == IF app \in DOMAIN l THEN l[app] ELSE EmptyDict
        slots1 == [i \in DOMAIN slots \cup {index} |-> IF i = index THEN value ELSE slots[i]]
    IN  [a \in DOMAIN l \cup {app} |-> IF a = app THEN slots1 ELSE l[a]]

\* title_unchanged with the test left out: every report counts as a change
title_unchanged_never(last_info, new_title) == FALSE

\* media.py:185, the test that skips a slot whose title did not change
title_unchanged(last_info, new_title) ==
    last_info # EmptyTuple /\ last_info[2] = new_title

\* start_time that always takes the start of the run
start_time_of_run(last_info) == monitor_start_time

\* media.py:190
start_time(last_info) ==
    IF last_info # EmptyTuple THEN last_info[1] ELSE monitor_start_time

\* old_title with a placeholder, not '', for a slot never seen before
old_title_placeholder(last_info) ==
    IF last_info # EmptyTuple THEN last_info[2] ELSE "unknown"

\* media.py:198
old_title(last_info) ==
    IF last_info # EmptyTuple THEN last_info[2] ELSE ""

\* has_old_title that tests last_info where the code tests old_title
has_old_title_any(last_info) == last_info # EmptyTuple

\* media.py:199-200, `if not old_title: continue` lets only these through
has_old_title(last_info) == old_title(last_info) # ""

\* video_id_of without the filter on path: the first row of the table
video_id_of_first(rows, title) ==
    IF rows = {} THEN None ELSE (CHOOSE video \in rows : TRUE).video_id

\* media.py:202-206, session.query(Video).filter(Video.path == old_title).one()
\* with NoResultFound turned into None (path is unique, so at most one row)
video_id_of(rows, title) ==
    LET found == { video \in rows : video.path = title }
    IN  IF found = {} THEN None ELSE (CHOOSE video \in found : TRUE).video_id

\* media.py:208-209
WindowLog(start_dt, end_dt, app_name, title, video_id) ==
    [start_dt |-> start_dt, end_dt |-> end_dt, app_name |-> app_name,
     title |-> title, video_id |-> video_id]

NoLocal == [start_time |-> 0, end_time |-> 0, app |-> "", old_title |-> ""]
NoWindowLog == << >>

\* media.py:184-200 for one (app, index, new_title) read at time `now`:
\* the new history, what is printed, and whether a WindowLog follows
check_title(l, item, now) ==
    LET app == item[1]
        index == item[2]
        new_title == item[3]
        last_info == info(l, app, index)
    IN  IF title_unchanged(last_info, new_title)
        THEN [changed |-> FALSE, last |-> l, printed |-> << >>, logs |-> FALSE, local |-> NoLocal]
        ELSE [changed |-> TRUE,
              last |-> store(l, app, index, << now, new_title >>),
              printed |-> IF new_title # "" THEN << << "open", now, app, new_title >> >> ELSE << >>,
              logs |-> has_old_title(last_info),
              local |-> [start_time |-> start_time(last_info), end_time |-> now,
                         app |-> app, old_title |-> old_title(last_info)]]

\* correlate with the two timestamps given to the wrong fields
correlate_swapped(rows, loc) ==
    WindowLog(loc.end_time, loc.start_time, loc.app, loc.old_title,
              video_id_of(rows, loc.old_title))

\* media.py:202-210 for the slot being closed: the WindowLog that is printed
correlate(rows, loc) ==
    WindowLog(loc.start_time, loc.end_time, loc.app, loc.old_title,
              video_id_of(rows, loc.old_title))

\* where the loop goes once an item is done: the next item, or sleep
after_item(rest) == IF rest = << >> THEN "sleep" ELSE "slot"

\* media.py:211-213: after the print, the session when saving, else the next item
after_print(save, rest) == IF save THEN "add" ELSE after_item(rest)

bump(count, key) ==
    [k \in DOMAIN count \cup {key} |->
        IF k = key THEN (IF k \in DOMAIN count THEN count[k] + 1 ELSE 1) ELSE count[k]]

remember(history, key, value) ==
    [k \in DOMAIN history \cup {key} |->
        IF k = key THEN (IF k \in DOMAIN history THEN Append(history[k], value) ELSE << value >>)
        ELSE history[k]]

----------------------------------------------------------------------------
(* The state machine *)

Init ==
    /\ pc = "sleep"
    /\ exception = ""
    /\ clock = 0
    /\ monitor_start_time = 0
    /\ save_logs \in BOOLEAN
    /\ VIDEO_ROOT_PATH \in { "", "/videos/" }
    /\ catalog \in Catalogs
    /\ table_window_log = << >>
    /\ session_new = << >>
    /\ lines = << >>
    /\ windows = EmptyDict
    /\ todo = << >>
    /\ last = EmptyDict
    /\ local = NoLocal
    /\ window_log = NoWindowLog
    /\ output = << >>
    /\ seen = EmptyDict
    /\ writes = EmptyDict
    /\ closed = EmptyDict
    /\ dry_pc = "sleep"
    /\ dry_exception = ""
    /\ dry_todo = << >>
    /\ dry_last = EmptyDict
    /\ dry_local = NoLocal
    /\ dry_output = << >>

config == << monitor_start_time, save_logs, VIDEO_ROOT_PATH, catalog >>

\* media.py:175-177: sleep(.2), then list_windows(), which may raise
Poll ==
    /\ pc = "sleep"
    /\ clock < MaxTime
    /\ clock' = clock + 1
    /\ \E ls \in WmOutputs :
        /\ lines' = ls
        /\ IF list_windows_raises(ls)
           THEN /\ pc' = "raised"
                /\ exception' = "ValueError"
                /\ UNCHANGED << windows, todo >>
           ELSE /\ windows' = list_windows(ls)
                /\ todo' = items_of(windows', key_order(ls, APPS))
                /\ pc' = "slot"
                /\ UNCHANGED exception
    /\ UNCHANGED << config, table_window_log, session_new, last, local, window_log,
                    output, seen, writes, closed >>

\* time passes between two reads of datetime.now() in one poll
Tick ==
    /\ pc = "slot"
    /\ clock < MaxTime
    /\ clock' = clock + 1
    /\ UNCHANGED << pc, exception, config, table_window_log, session_new, lines, windows,
                    todo, last, local, window_log, output, seen, writes, closed >>

\* media.py:181-200 for the next (app, index, new_title)
CheckTitle ==
    /\ pc = "slot"
    /\ todo # << >>
    /\ LET item == Head(todo)
           slot == << item[1], item[2] >>
           r == check_title(last, item, clock)
       IN  /\ last' = r.last
           /\ output' = output \o r.printed
           /\ seen' = bump(seen, slot)
           /\ writes' = IF r.changed THEN bump(writes, slot) ELSE writes
           /\ closed' = IF r.logs
                        THEN remember(closed, slot, << r.local.start_time, r.local.end_time >>)
                        ELSE closed
           /\ todo' = Tail(todo)
           /\ IF r.logs
              THEN pc' = "query" /\ local' = r.local
              ELSE pc' = after_item(todo') /\ local' = NoLocal
    /\ UNCHANGED << exception, clock, config, table_window_log, session_new, lines, windows,
                    window_log >>

\* media.py:202-211: the lookup, the WindowLog, its print, and the test of save_logs
Correlate ==
    /\ pc = "query"
    /\ window_log' = correlate(catalog, local)
    /\ output' = Append(output, << "log", window_log' >>)
    /\ pc' = after_print(save_logs, todo)
    /\ local' = IF save_logs THEN local ELSE NoLocal
    /\ UNCHANGED << exception, clock, config, table_window_log, session_new, lines, windows,
                    todo, last, seen, writes, closed >>

\* media.py:212
SessionAdd ==
    /\ pc = "add"
    /\ session_new' = Append(session_new, window_log)
    /\ pc' = "commit"
    /\ UNCHANGED << exception, clock, config, table_window_log, lines, windows, todo, last,
                    local, window_log, output, seen, writes, closed >>

\* SessionCommit that rewrites the table from the session
SessionCommit_overwrite ==
    /\ pc = "commit"
    /\ table_window_log' = session_new
    /\ session_new' = << >>
    /\ pc' = after_item(todo)
    /\ local' = NoLocal
    /\ UNCHANGED << exception, clock, config, lines, windows, todo, last, window_log,
                    output, seen, writes, closed >>

\* media.py:213, the commit succeeds
SessionCommit ==
    /\ pc = "commit"
    /\ table_window_log' = table_window_log \o session_new
    /\ session_new' = << >>
    /\ pc' = after_item(todo)
    /\ local' = NoLocal
    /\ UNCHANGED << exception, clock, config, lines, windows, todo, last, window_log,
                    output, seen, writes, closed >>

\* media.py:213, the commit fails: nothing in window_monitor catches the error
SessionCommitFails ==
    /\ pc = "commit"
    /\ pc' = "raised"
    /\ exception' = "SQLAlchemyError"
    /\ UNCHANGED << clock, config, table_window_log, session_new, lines, windows, todo,
                    last, local, window_log, output, seen, writes, closed >>

InTry == { "sleep", "slot", "query", "add", "commit" }

\* KeyboardInterrupt with a handler that closes a title still open and
\* saves it before returning
KeyboardInterrupt_flush ==
    /\ pc \in InTry
    /\ pc' = "returned"
    /\ exception' = "KeyboardInterrupt"
    /\ LET open == { slot \in DOMAIN writes : info(last, slot[1], slot[2])[2] # "" }
       IN  table_window_log' =
             IF open = {} THEN table_window_log
             ELSE LET slot == CHOOSE x \in open : TRUE
                      last_info == info(last, slot[1], slot[2])
                  IN  Append(table_window_log,
                             WindowLog(last_info[1], clock, slot[1], last_info[2], None))
    /\ UNCHANGED << clock, config, session_new, lines, windows, todo, last, local,
                    window_log, output, seen, writes, closed >>

\* media.py:214-215
KeyboardInterrupt ==
    /\ pc \in InTry
    /\ pc' = "returned"
    /\ exception' = "KeyboardInterrupt"
    /\ UNCHANGED << clock, config, table_window_log, session_new, lines, windows,
                    todo, last, local, window_log, output, seen, writes, closed >>

Next ==
    \/ Poll /\ UNCHANGED dry
    \/ Tick /\ UNCHANGED dry
    \/ CheckTitle /\ UNCHANGED dry
    \/ Correlate /\ UNCHANGED dry
    \/ SessionAdd /\ UNCHANGED dry
    \/ SessionCommit /\ UNCHANGED dry
    \/ SessionCommitFails /\ UNCHANGED dry
    \/ KeyboardInterrupt /\ UNCHANGED dry

Spec == Init /\ [][Next]_vars

----------------------------------------------------------------------------
(* Two runs on the same input: window_monitor(save_logs=True) in the        *)
(* variables above and window_monitor(save_logs=False) in the dry_          *)
(* variables.  Both get the same listing at each poll and read the same     *)
(* clock; the dry run waits while the other run is in its session calls,    *)
(* and goes on alone once the other run has ended on a failed commit.       *)

\* every variable of the first run but the clock
first == << pc, exception, config, table_window_log, session_new, lines, windows, todo,
            last, local, window_log, output, seen, writes, closed >>

\* media.py:175-177 in the dry run, given the listing ls
DryPoll(ls) ==
    /\ dry_pc = "sleep"
    /\ IF list_windows_raises(ls)
       THEN /\ dry_pc' = "raised"
            /\ dry_exception' = "ValueError"
            /\ UNCHANGED dry_todo
       ELSE /\ dry_todo' = items_of(list_windows(ls), key_order(ls, APPS))
            /\ dry_pc' = "slot"
            /\ UNCHANGED dry_exception
    /\ UNCHANGED << dry_last, dry_local, dry_output >>

\* media.py:181-200 in the dry run
DryCheckTitle ==
    /\ dry_pc = "slot"
    /\ dry_todo # << >>
    /\ LET r == check_title(dry_last, Head(dry_todo), clock)
       IN  /\ dry_last' = r.last
           /\ dry_output' = dry_output \o r.printed
           /\ dry_todo' = Tail(dry_todo)
           /\ IF r.logs
              THEN dry_pc' = "query" /\ dry_local' = r.local
              ELSE dry_pc' = after_item(dry_todo') /\ dry_local' = NoLocal
    /\ UNCHANGED dry_exception

\* media.py:202-211 in the dry run
DryCorrelate ==
    /\ dry_pc = "query"
    /\ dry_output' = Append(dry_output, << "log", correlate(catalog, dry_local) >>)
    /\ dry_pc' = after_print(FALSE, dry_todo)
    /\ dry_local' = NoLocal
    /\ UNCHANGED << dry_exception, dry_todo, dry_last >>

\* media.py:214-215 in the dry run
DryKeyboardInterrupt ==
    /\ dry_pc \in InTry
    /\ dry_pc' = "returned"
    /\ dry_exception' = "KeyboardInterrupt"
    /\ UNCHANGED << dry_todo, dry_last, dry_local, dry_output >>

\* the first run has ended on a failed commit
FirstEnded == pc = "raised" /\ exception = "SQLAlchemyError"

InitDryRun == Init /\ save_logs = TRUE

NextDryRun ==
    \/ Poll /\ DryPoll(lines')
    \/ Tick /\ UNCHANGED dry
    \/ CheckTitle /\ DryCheckTitle
    \/ Correlate /\ DryCorrelate
    \/ SessionAdd /\ UNCHANGED dry
    \/ SessionCommit /\ UNCHANGED dry
    \/ SessionCommitFails /\ UNCHANGED dry
    \/ KeyboardInterrupt /\ DryKeyboardInterrupt
    \/ /\ FirstEnded
       /\ clock < MaxTime
       /\ clock' = clock + 1
       /\ \E ls \in WmOutputs : DryPoll(ls)
       /\ UNCHANGED first
    \/ /\ FirstEnded
       /\ dry_pc = "slot"
       /\ clock < MaxTime
       /\ clock' = clock + 1
       /\ UNCHANGED << first, dry >>
    \/ FirstEnded /\ DryCheckTitle /\ UNCHANGED << first, clock >>
    \/ FirstEnded /\ DryCorrelate /\ UNCHANGED << first, clock >>
    \/ FirstEnded /\ DryKeyboardInterrupt /\ UNCHANGED << first, clock >>

SpecDryRun == InitDryRun /\ [][NextDryRun]_vars

----------------------------------------------------------------------------
(* What the properties below read from a state *)

\* the step taken is the visit of the first item of todo (media.py:184-200)
VisitsItem == pc = "slot" /\ todo # << >> /\ todo' = Tail(todo) /\ pc' # "returned"

HeadApp == Head(todo)[1]
HeadIndex == Head(todo)[2]
HeadTitle == Head(todo)[3]

\* history holds an entry for the slot of the first item of todo
HeadStored == HeadApp \in DOMAIN last /\ HeadIndex \in DOMAIN last[HeadApp]

\* the WindowLog objects printed so far
Printed(out) == { out[i][2] : i \in { j \in DOMAIN out : out[j][1] = "log" } }

\* every WindowLog object the state holds: printed, pending or committed
AllLogs ==
    Printed(output) \cup Range(session_new) \cup Range(table_window_log)
    \cup (IF window_log = NoWindowLog THEN {} ELSE { window_log })

NoStoreWrite ==
    /\ table_window_log' = table_window_log
    /\ session_new' = session_new

----------------------------------------------------------------------------
(* C1 .. C5 *)

\* C1 (debounce): visiting a slot whose snapshot title equals the title
\* history stores for it prints nothing, writes nothing to the store and
\* leaves history as it was.
Thm_C1_Debounce ==
    [][ (VisitsItem /\ HeadStored /\ last[HeadApp][HeadIndex][2] = HeadTitle)
        => /\ last' = last
           /\ output' = output
           /\ NoStoreWrite
           /\ pc' \in { "slot", "sleep" } ]_vars

\* a slot with a title was reported more often than it was stored
Wit_C1_Debounce ==
    \E slot \in DOMAIN seen :
        /\ seen[slot] > writes[slot]
        /\ info(last, slot[1], slot[2])[2] # ""

\* C2 as the spec states it: the record closing title A starts at
\* monitor_start_time when A was the first title seen in the slot, and
\* otherwise at the time A was stored; it ends at the time of the poll
\* that saw the new title.
Orig_C2_StartIsRunStart ==
    [][ (VisitsItem /\ HeadStored /\ last[HeadApp][HeadIndex][2] \notin { "", HeadTitle })
        => /\ pc' = "query"
           /\ local'.end_time = clock
           /\ local'.start_time =
                IF writes[<< HeadApp, HeadIndex >>] = 1
                THEN monitor_start_time
                ELSE last[HeadApp][HeadIndex][1] ]_vars

\* C2, amended: the record closing title A starts at the time A was stored
\* in history, also when A was the first title seen in the slot, and ends at
\* the time of the poll that saw the new title; the printed WindowLog
\* carries that start, that end, the application and A.
Thm_C2_Interval ==
    [][ /\ (VisitsItem /\ HeadStored /\ last[HeadApp][HeadIndex][2] \notin { "", HeadTitle })
           => /\ pc' = "query"
              /\ local' = [start_time |-> last[HeadApp][HeadIndex][1],
                           end_time |-> clock,
                           app |-> HeadApp,
                           old_title |-> last[HeadApp][HeadIndex][2]]
        /\ (pc = "query" /\ pc' # "returned")
           => /\ Len(output') = Len(output) + 1
              /\ output'[Len(output')][1] = "log"
              /\ output'[Len(output')][2].start_dt = local.start_time
              /\ output'[Len(output')][2].end_dt = local.end_time
              /\ output'[Len(output')][2].app_name = local.app
              /\ output'[Len(output')][2].title = local.old_title ]_vars

\* a record was printed for the first title a slot ever had, and it starts
\* after the monitor did
Wit_C2_Interval ==
    \E slot \in DOMAIN writes : \E log \in Printed(output) :
        /\ writes[slot] = 2
        /\ log.app_name = slot[1]
        /\ log.end_dt = info(last, slot[1], slot[2])[1]
        /\ log.start_dt > monitor_start_time
        /\ log.end_dt > log.start_dt

\* C3 (first observation): visiting a slot history has no entry for prints
\* no WindowLog and writes nothing to the store, whatever the title; it
\* stores (now, title) for the slot.
Thm_C3_FirstObservation ==
    [][ (VisitsItem /\ ~HeadStored)
        => /\ Printed(output') = Printed(output)
           /\ NoStoreWrite
           /\ pc' \in { "slot", "sleep" }
           /\ info(last', HeadApp, HeadIndex) = << clock, HeadTitle >> ]_vars

\* a slot was seen once, with a title, and nothing has been logged
Wit_C3_FirstObservation ==
    \E slot \in DOMAIN writes :
        /\ writes[slot] = 1
        /\ seen[slot] = 1
        /\ info(last, slot[1], slot[2])[2] # ""
        /\ pc = "sleep"
        /\ AllLogs = {}

\* C4 (empty title): a change of title in a slot whose stored title is empty
\* prints no WindowLog and writes nothing to the store, and history takes
\* (now, new title); no WindowLog anywhere has an empty title.
Thm_C4_EmptyTitle ==
    [][ /\ (VisitsItem /\ HeadStored /\ last[HeadApp][HeadIndex][2] = "" /\ HeadTitle # "")
           => /\ Printed(output') = Printed(output)
              /\ NoStoreWrite
              /\ pc' \in { "slot", "sleep" }
              /\ info(last', HeadApp, HeadIndex) = << clock, HeadTitle >>
        /\ \A log \in AllLogs' : log.title # "" ]_vars

\* a slot went from the empty title to a title, and nothing has been logged
Wit_C4_EmptyTitle ==
    \E slot \in DOMAIN writes :
        /\ writes[slot] = 2
        /\ info(last, slot[1], slot[2])[2] # ""
        /\ pc = "sleep"
        /\ AllLogs = {}

\* C5 (correlation): every WindowLog has the video_id of the catalog row
\* whose path equals its title, and None when there is none; without a
\* match the record is still printed and, when saving, handed to the session.
Thm_C5_Correlation ==
    [][ /\ \A log \in AllLogs' :
              \/ \E video \in catalog : video.path = log.title /\ log.video_id = video.video_id
              \/ (\A video \in catalog : video.path # log.title) /\ log.video_id = None
        /\ (pc = "query" /\ pc' # "returned" /\ \A video \in catalog : video.path # local.old_title)
           => /\ Len(output') = Len(output) + 1
              /\ output'[Len(output')] = << "log", window_log' >>
              /\ window_log'.title = local.old_title
              /\ pc' = IF save_logs THEN "add" ELSE after_item(todo)
        /\ (pc = "add" /\ pc' # "returned") => session_new' = Append(session_new, window_log) ]_vars

\* with a video in the catalog, one committed record links to it and
\* another has no link
Wit_C5_Correlation ==
    /\ catalog # {}
    /\ \E log \in Range(table_window_log) : log.video_id # None
    /\ \E log \in Range(table_window_log) : log.video_id = None

----------------------------------------------------------------------------
(* C7 .. C10 *)

\* some line of the listing belongs to the application
HasLine(ls, app) == \E i \in DOMAIN ls : ls[i].app = app

\* C7 (application closed): once a poll is done, every application history
\* knows and the poll found no window of is a key of the poll's snapshot with
\* the single empty title, and the change to the empty title was seen, so
\* slot 0 of its history now holds the empty title.
Orig_C7_CloseDetected ==
    (pc = "sleep" /\ exception = "")
    => \A app \in DOMAIN last :
          ~HasLine(lines, app)
          => /\ app \in DOMAIN windows
             /\ windows[app] = << "" >>
             /\ info(last, app, 0)[2] = ""

\* C8 (slot padding): every snapshot list_windows returns gives every key a
\* list of at least one title; its keys are APPS and the applications of the
\* lines read; an application of APPS without a line has exactly [''].
Thm_C8_SlotPadding ==
    (windows # EmptyDict /\ exception # "ValueError")
    => /\ \A app \in DOMAIN windows : Len(windows[app]) >= 1
       /\ DOMAIN windows = Range(APPS) \cup { lines[i].app : i \in DOMAIN lines }
       /\ \A app \in Range(APPS) : ~HasLine(lines, app) => windows[app] = << "" >>

\* a snapshot with a window of one application and none of feh
Wit_C8_SlotPadding ==
    /\ pc = "slot"
    /\ lines # << >>
    /\ "google-chrome.Google-chrome" \in DOMAIN windows
    /\ windows["feh.feh"] = << "" >>

\* C9 (persistence failure): a commit that fails does not end the monitor.
Orig_C9_ContinuesAfterFailure ==
    exception = "SQLAlchemyError" => pc \in InTry

\* C10 (interrupt): the loop is left only by an exception; when that is
\* KeyboardInterrupt, window_monitor returns, and the step that returns
\* writes nothing: the table, the session, history and the output are as
\* they were when the interrupt came.
Thm_C10_Interrupt ==
    [][ /\ pc' \notin InTry => exception' # ""
        /\ exception' = "KeyboardInterrupt" <=> pc' = "returned"
        /\ (pc # "returned" /\ pc' = "returned")
           => /\ pc \in InTry
              /\ table_window_log' = table_window_log
              /\ session_new' = session_new
              /\ output' = output
              /\ last' = last ]_vars

\* the monitor returned on an interrupt while a title was open that no
\* committed row records
Wit_C10_Interrupt ==
    /\ pc = "returned"
    /\ save_logs
    /\ \E slot \in DOMAIN writes :
          /\ info(last, slot[1], slot[2])[2] # ""
          /\ \A log \in Range(table_window_log) :
                log.title # info(last, slot[1], slot[2])[2]

----------------------------------------------------------------------------
(* C6 *)

----------------------------------------------------------------------------
(* C11 .. C13 *)

\* C11 (snapshot failure): a poll that lists a vlc window while the video
\* root path is not set, so that list_vlc_open_files fails, still gets a
\* snapshot, with the single empty title for vlc, and the monitor goes on.
Orig_C11_SnapshotFailureTolerated ==
    (HasLine(lines, "vlc.Vlc") /\ VIDEO_ROOT_PATH = "")
    => /\ pc # "raised"
       /\ "vlc.Vlc" \in DOMAIN windows
       /\ windows["vlc.Vlc"] = << "" >>

\* C12 (append only): every step leaves the rows the table window_log
\* already holds where and as they were, rows are only added behind them,
\* and the table video is not changed.
Thm_C12_AppendOnly ==
    [][ /\ Len(table_window_log') >= Len(table_window_log)
        /\ \A i \in DOMAIN table_window_log : table_window_log'[i] = table_window_log[i]
        /\ \A i \in DOMAIN table_window_log' \ DOMAIN table_window_log :
              table_window_log'[i] = window_log
        /\ catalog' = catalog ]_vars

\* two rows were committed, one after the other
Wit_C12_AppendOnly ==
    /\ Len(table_window_log) >= 2
    /\ session_new = << >>
    /\ catalog # {}

\* C13 (cooperative cancellation): when window_monitor has returned on an
\* interrupt, it left at the boundary of the loop: no item of the snapshot
\* was left unvisited, no slot had its history overwritten with its record
\* still to be saved, and no record was added to the session but not
\* committed.
Orig_C13_ExitsAtLoopBoundary ==
    pc = "returned"
    => /\ todo = << >>
       /\ local = NoLocal
       /\ session_new = << >>

----------------------------------------------------------------------------
(* C14 *)

\* a poll has been made and every item of its snapshot was visited
PollDone == pc = "sleep" /\ exception = "" /\ windows # EmptyDict

\* the slots of an application that some poll of the run has visited
SlotsSeen(app) == { slot[2] : slot \in { s \in DOMAIN seen : s[1] = app } }

\* C14 as stated (slot count): after every poll, last[app] holds as many
\* indices as the most recent snapshot has titles for app, at least one.
Orig_C14_SlotCountIsSnapshot ==
    PollDone
    => \A app \in DOMAIN windows :
          /\ app \in DOMAIN last
          /\ Len(windows[app]) >= 1
          /\ Cardinality(DOMAIN last[app]) = Len(windows[app])

\* C14 amended (slot count): after every poll, last[app] holds exactly the
\* indices 0 .. n-1 visited for app in any poll so far, where n is at least
\* the number of titles of the most recent snapshot, which is at least one.
Thm_C14_SlotCount ==
    PollDone
    => \A app \in DOMAIN windows :
          /\ app \in DOMAIN last
          /\ Len(windows[app]) >= 1
          /\ DOMAIN last[app] = SlotsSeen(app)
          /\ DOMAIN last[app] = 0 .. (Cardinality(DOMAIN last[app]) - 1)
          /\ Cardinality(DOMAIN last[app]) >= Len(windows[app])

\* a list of titles got shorter: history holds more slots than the snapshot
Wit_C14_SlotCount ==
    /\ PollDone
    /\ \E app \in DOMAIN windows :
          /\ app \in DOMAIN last
          /\ Cardinality(DOMAIN last[app]) > Len(windows[app])

----------------------------------------------------------------------------
(* C15 *)

\* the lines of the listing that belong to vlc
VlcLines(ls) == SelectSeq(ls, LAMBDA line : startswith_vlc(line.app))

\* the relative paths lsof reports for the vlc process, in file order
OpenFiles(ls) ==
    LET lsof == Head(VlcLines(ls)).lsof
    IN  [ j \in DOMAIN lsof |-> lsof[j][3] ]

\* C15 (media-player slots): when the listing has one or more vlc lines and
\* lsof reports a non-empty list F of open files under the root, the titles
\* of vlc in the snapshot are exactly F, one slot per file, in file order.
Orig_C15_VlcSlotsAreFiles ==
    ( /\ VIDEO_ROOT_PATH # ""
      /\ VlcLines(lines) # << >>
      /\ \A i \in DOMAIN VlcLines(lines) :
            VlcLines(lines)[i].lsof = Head(VlcLines(lines)).lsof
      /\ OpenFiles(lines) # << >> )
    => windows["vlc.Vlc"] = OpenFiles(lines)

----------------------------------------------------------------------------
(* C16 *)

\* the transitions detected so far whose prior stored title was not empty
Transitions ==
    UNION { { << slot, i >> : i \in DOMAIN closed[slot] } : slot \in DOMAIN closed }

\* the WindowLog lines printed so far, one per lookup that was made
LogLines == { j \in DOMAIN output : output[j][1] = "log" }

\* the monitor is between two polls, or has ended
Idle == pc \in { "sleep", "returned", "raised" }

\* C16 (exactly once): whenever the monitor is between polls or has ended,
\* every transition detected with a non-empty prior title has had its one
\* lookup and its one WindowLog, and in persisting mode its one inserted
\* row: the rows inserted are as many as the transitions, none is pending,
\* and a dry run has inserted none.
Orig_C16_ExactlyOnce ==
    Idle
    => /\ Cardinality(LogLines) = Cardinality(Transitions)
       /\ Len(table_window_log) = (IF save_logs THEN Cardinality(Transitions) ELSE 0)
       /\ session_new = << >>

----------------------------------------------------------------------------
(* C17 *)

\* C17 (interval order): every WindowLog that window_monitor has built,
\* whether printed, added to the session or committed, ends at or after
\* the time it starts (the clock never goes back).
Thm_C17_EndNotBeforeStart ==
    \A log \in AllLogs : log.end_dt >= log.start_dt

\* a committed row whose interval is not empty
Wit_C17_EndNotBeforeStart ==
    \E i \in DOMAIN table_window_log :
        table_window_log[i].end_dt > table_window_log[i].start_dt

----------------------------------------------------------------------------
(* C18 *)

\* the records built so far for a slot, as (start, end)
ClosedOf(history, app, k) ==
    IF << app, k >> \in DOMAIN history THEN history[<< app, k >>] ELSE << >>

\* C18 (absent slot): only the slots the snapshot holds are visited, so a
\* slot k that a shorter list of titles no longer has gets no record and
\* keeps its history entry, title and timestamp.  An entry changes, and a
\* record is built for the slot, only in the visit of that very slot with a
\* title that differs from the stored one; the record then starts at the
\* stored timestamp, however old, and ends at the time of that visit.  A
\* visit with the stored title changes nothing, whether or not the slot
\* was absent in between.
Thm_C18_AbsentSlot ==
    [][ /\ VisitsItem => HeadIndex < Len(windows[HeadApp])
        /\ \A app \in DOMAIN last : \A k \in DOMAIN last[app] :
              /\ app \in DOMAIN last' /\ k \in DOMAIN last'[app]
              /\ (last'[app][k] # last[app][k]
                  \/ ClosedOf(closed', app, k) # ClosedOf(closed, app, k))
                 => /\ VisitsItem
                    /\ HeadApp = app /\ HeadIndex = k
                    /\ HeadTitle # last[app][k][2]
                    /\ last'[app][k] = << clock, HeadTitle >>
                    /\ ClosedOf(closed', app, k) =
                          IF last[app][k][2] = "" THEN ClosedOf(closed, app, k)
                          ELSE Append(ClosedOf(closed, app, k), << last[app][k][1], clock >>)
        /\ (VisitsItem /\ HeadStored /\ last[HeadApp][HeadIndex][2] = HeadTitle)
           => last' = last /\ closed' = closed ]_vars

\* slot 1 of an application was in the first snapshot, not in the second
\* (slot 0 was visited three times, slot 1 twice), and the third snapshot
\* had another title for it: its one record starts at the first poll
Wit_C18_AbsentSlot ==
    \E app \in DOMAIN last :
        /\ << app, 1 >> \in DOMAIN closed
        /\ seen[<< app, 0 >>] = 3
        /\ seen[<< app, 1 >>] = 2
        /\ Len(closed[<< app, 1 >>]) = 1
        /\ closed[<< app, 1 >>][1][1] = 1
        /\ closed[<< app, 1 >>][1][2] = clock

----------------------------------------------------------------------------
(* C19, C20 *)

\* C19 (start of a record): every WindowLog built starts at the time its
\* title was stored in history, the time of the "Open window" line printed
\* for that application and title when line 193 stored it, and never at
\* monitor_start_time, which lies before every such time; this includes
\* the record of the first title a slot had.
Thm_C19_StartIsStoreTime ==
    \A log \in AllLogs :
        /\ log.start_dt # monitor_start_time
        /\ log.start_dt > monitor_start_time
        /\ \E i \in DOMAIN output :
              output[i] = << "open", log.start_dt, log.app_name, log.title >>

\* the first title a slot had was closed and its row committed: the row
\* starts at the first write of the slot, after the monitor started
Wit_C19_StartIsStoreTime ==
    \E slot \in DOMAIN closed : \E log \in Range(table_window_log) :
        /\ writes[slot] = 2
        /\ log.app_name = slot[1]
        /\ log.start_dt = closed[slot][1][1]
        /\ log.end_dt = closed[slot][1][2]
        /\ log.start_dt > monitor_start_time
        /\ pc = "sleep"

\* C20 (no overlap): of two records built for the same (app, index), the
\* later one starts at or after the end of the earlier one.
Thm_C20_NoOverlap ==
    \A slot \in DOMAIN closed : \A i, j \in DOMAIN closed[slot] :
        i < j => closed[slot][j][1] >= closed[slot][i][2]

\* two records were built for one slot, the second from the end of the first
Wit_C20_NoOverlap ==
    \E slot \in DOMAIN closed :
        /\ Len(closed[slot]) = 2
        /\ closed[slot][2][1] = closed[slot][1][2]
        /\ closed[slot][2][2] > closed[slot][2][1]

====
